---- MODULE Spec2Model ----
(***************************************************************************)
(* uni-schedule-backend: the authentication service (AuthService) and the  *)
(* class service (ClassService).                                           *)
(*                                                                         *)
(* The services are modelled from src/internal/service/auth/auth.go and    *)
(* src/unnamed/part_000.  Their collaborators (user, token, class and      *)
(* schedule repositories, the JWT manager, the password hashing utility)   *)
(* are not part of the source at hand; they are modelled from the          *)
(* interfaces the specification gives for them (section 6).                *)
(*                                                                         *)
(* A handler is a function from the collaborators' state and the call's    *)
(* inputs to the value it returns, the collaborators' new state and the    *)
(* collaborator calls it made, in order.  A collaborator failure is an     *)
(* input of the call (fault): the place where a collaborator answers with  *)
(* an unexpected error.                                                    *)
(***************************************************************************)
EXTENDS Integers, Sequences, FiniteSets, TLC

VARIABLES
    users,       \* user repository: sequence of user records, users[i].ID = i
    tokens,      \* token repository: set of refresh-token records
    jwt,         \* JWT manager: number of tokens generated so far
    last,        \* observation of the last completed AuthService call
    current,     \* history: per user ID, the token pair last returned to a caller
    superseded,  \* history: refresh tokens returned to a caller and since replaced
    classes,     \* class repository: set of class records
    schedules,   \* schedule repository: set of schedule records
    nextClassID, \* class repository: the ID the next created class gets
    clast,       \* observation of the last completed ClassService call
    pc,          \* concurrent calls: per process, where its call stands
    loc,         \* concurrent calls: per process, the call's inputs and locals
    lastWrite    \* history: per user ID, the process whose CreateOrUpdate ran last

authVars  == <<users, tokens, jwt, last, current, superseded>>
classVars == <<classes, schedules, nextClassID, clast>>
concVars  == <<pc, loc, lastWrite>>
vars      == <<authVars, classVars, concVars>>

----------------------------------------------------------------------------
(* Bounds and input domains *)

MaxIssued == 6

Usernames == {"alice", "bob"}
Passwords == {"pw1", "pw2"}
UserIDs   == 1..Cardinality(Usernames)

passwordSalt == "salt"
RoleStudent  == "student"

----------------------------------------------------------------------------
(* Errors (internal/apperror): sentinels, wrapped service errors and the   *)
(* unexpected errors of the collaborators.                                 *)

Err(kind, msg, cause) == [kind |-> kind, msg |-> msg, cause |-> cause]

Nil                         == Err("nil", "", "")
ErrNotFound                 == Err("sentinel", "ErrNotFound", "")
ErrAlreadyExists            == Err("sentinel", "ErrAlreadyExists", "")
ErrInvalidLoginOrPassword   == Err("sentinel", "ErrInvalidLoginOrPassword", "")
ErrUsernameAlreadyTaken     == Err("sentinel", "ErrUsernameAlreadyTaken", "")
ErrInvalidRefreshToken      == Err("sentinel", "ErrInvalidRefreshToken", "")
ErrInvalidAccessToken       == Err("sentinel", "ErrInvalidAccessToken", "")
ErrUserNotFound             == Err("sentinel", "ErrUserNotFound", "")
ErrDontHavePermission       == Err("sentinel", "ErrDontHavePermission", "")

\* an unexpected failure of a collaborator (database down, signing failure, ...)
ErrCollaborator(what)       == Err("collaborator", what, "")

\* apperror.NewServiceError(msg, err)
NewServiceError(msg, err)   == Err("ServiceError", msg, err.msg)

\* fmt.Errorf("<msg>: %w", err)
Errorf(msg, err)            == Err("wrapped", msg, err.msg)

\* errors.Is(err, target) for the errors above: none of them wraps a sentinel
ErrorsIs(err, target)       == err = target

----------------------------------------------------------------------------
(* Token strings.  A token the JWT manager signs carries its kind, the     *)
(* user ID it is keyed by and what makes two tokens of one user differ     *)
(* (issue time, expiry): n, the number of tokens generated before it.      *)

Token(kind, uid, n) == [kind |-> kind, uid |-> uid, n |-> n]

EmptyString == Token("empty", 0, 0)      \* ""
Garbage     == Token("garbage", 0, 0)    \* a string that is no signed token

\* the strings a caller may present when j tokens have been generated: every
\* token signed so far, for any user ID (in the user repository or not), the
\* empty string and a string that is no token
TokenStrings(j) ==
    {Token(kind, u, n) : kind \in {"access", "refresh"}, u \in UserIDs, n \in 0..(j - 1)}
        \cup {EmptyString, Garbage}

\* domain.NewTokenPair, domain.TokenPair{}
NewTokenPair(accessToken, refreshToken) ==
    [AccessToken |-> accessToken, RefreshToken |-> refreshToken]

EmptyTokenPair == NewTokenPair(EmptyString, EmptyString)

\* domain.User{}
EmptyUser ==
    [ID |-> 0, Username |-> "", PasswordHash |-> <<>>, Role |-> "", CreatedAt |-> ""]

----------------------------------------------------------------------------
(* Collaborators, from their interfaces (specification, section 6).  Each  *)
(* answers with its value, NotFound/AlreadyExists where the interface says *)
(* so, or, when the call's fault names it, an unexpected error.            *)

\* time.Now(): the reading is stored and never read back by the services
TimeNow == "time.Now"

\* hash.HashPassword(password, salt) -> hash | error
HashPassword(password, salt, fault) ==
    IF fault = "hash"
    THEN [err |-> ErrCollaborator("hash"), hash |-> <<>>]
    ELSE [err |-> Nil, hash |-> <<"hashed", salt, password>>]

\* hash.VerifyPassword(password, hash, salt) -> bool
VerifyPassword(password, hash, salt) ==
    hash = HashPassword(password, salt, "none").hash

\* UserRepository.GetByUsername(name) -> User | NotFound
GetByUsername(us, username, fault) ==
    IF fault = "lookup"
    THEN [err |-> ErrCollaborator("user repository"), user |-> EmptyUser]
    ELSE IF \E i \in 1..Len(us) : us[i].Username = username
         THEN [err |-> Nil,
               user |-> us[CHOOSE i \in 1..Len(us) : us[i].Username = username]]
         ELSE [err |-> ErrNotFound, user |-> EmptyUser]

\* UserRepository.GetByID(id) -> User | NotFound
GetByID(us, id, fault) ==
    IF fault = "lookup"
    THEN [err |-> ErrCollaborator("user repository"), user |-> EmptyUser]
    ELSE IF id \in 1..Len(us)
         THEN [err |-> Nil, user |-> us[id]]
         ELSE [err |-> ErrNotFound, user |-> EmptyUser]

\* UserRepository.Create(UserCreate) -> id | AlreadyExists
\* (the repository enforces the uniqueness of usernames and assigns the ID)
Create(us, userCreate, fault) ==
    IF fault = "create"
    THEN [err |-> ErrCollaborator("user repository"), id |-> 0, users |-> us]
    ELSE IF \E i \in 1..Len(us) : us[i].Username = userCreate.Username
         THEN [err |-> ErrAlreadyExists, id |-> 0, users |-> us]
         ELSE [err |-> Nil, id |-> Len(us) + 1,
               users |-> Append(us, [ID           |-> Len(us) + 1,
                                     Username     |-> userCreate.Username,
                                     PasswordHash |-> userCreate.PasswordHash,
                                     Role         |-> userCreate.Role,
                                     CreatedAt    |-> userCreate.CreatedAt])]

\* domain.RefreshToken{}
EmptyRefreshToken ==
    [UserID |-> 0, RefreshToken |-> EmptyString, UpdatedAt |-> ""]

\* TokenRepository.GetByUserID(id) -> RefreshToken | NotFound
GetByUserID(ts, id, fault) ==
    IF fault = "lookup"
    THEN [err |-> ErrCollaborator("token repository"), token |-> EmptyRefreshToken]
    ELSE IF \E r \in ts : r.UserID = id
         THEN [err |-> Nil, token |-> CHOOSE r \in ts : r.UserID = id]
         ELSE [err |-> ErrNotFound, token |-> EmptyRefreshToken]

\* TokenRepository.CreateOrUpdate(RefreshToken) -> error
\* (create-or-update: the record of the user ID is replaced, atomically)
CreateOrUpdate(ts, record, fault) ==
    IF fault = "store"
    THEN [err |-> ErrCollaborator("token repository"), tokens |-> ts]
    ELSE [err |-> Nil,
          tokens |-> {r \in ts : r.UserID # record.UserID} \cup {record}]

\* JWTManager.ParseAccessToken(token) -> userID | error
ParseAccessToken(token, fault) ==
    IF fault = "parse" \/ token.kind # "access"
    THEN [err |-> ErrCollaborator("jwt: invalid token"), userID |-> 0]
    ELSE [err |-> Nil, userID |-> token.uid]

\* JWTManager.ParseRefreshToken(token) -> userID | error
ParseRefreshToken(token, fault) ==
    IF fault = "parse" \/ token.kind # "refresh"
    THEN [err |-> ErrCollaborator("jwt: invalid token"), userID |-> 0]
    ELSE [err |-> Nil, userID |-> token.uid]

\* JWTManager.GenerateAccessToken(userID) -> token | error
GenerateAccessToken(j, userID, fault) ==
    IF fault = "genAccess"
    THEN [err |-> ErrCollaborator("jwt: signing"), token |-> EmptyString, jwt |-> j]
    ELSE [err |-> Nil, token |-> Token("access", userID, j), jwt |-> j + 1]

\* JWTManager.GenerateRefreshToken(userID) -> token | error
GenerateRefreshToken(j, userID, fault) ==
    IF fault = "genRefresh"
    THEN [err |-> ErrCollaborator("jwt: signing"), token |-> EmptyString, jwt |-> j]
    ELSE [err |-> Nil, token |-> Token("refresh", userID, j), jwt |-> j + 1]

----------------------------------------------------------------------------
(* AuthService (src/internal/service/auth/auth.go).  A handler returns     *)
(* err and its value (pair, user), the user ID it acted for, the           *)
(* collaborators' new state and the collaborator calls it made.            *)

\* generateTokenPair going on to the refresh token after the access token failed
generateTokenPairContinues(j, userID, fault) ==
    LET a == GenerateAccessToken(j, userID, fault)
        r == GenerateRefreshToken(a.jwt, userID, fault) IN
    IF a.err # Nil
    THEN [err   |-> Errorf("generateTokenPair.GenerateAccessToken", a.err),
          pair  |-> EmptyTokenPair, jwt |-> r.jwt,
          calls |-> <<"GenerateAccessToken", "GenerateRefreshToken">>]
    ELSE IF r.err # Nil
         THEN [err   |-> Errorf("generateTokenPair.GenerateRefreshToken", r.err),
               pair  |-> EmptyTokenPair, jwt |-> r.jwt,
               calls |-> <<"GenerateAccessToken", "GenerateRefreshToken">>]
         ELSE [err   |-> Nil,
               pair  |-> NewTokenPair(a.token, r.token), jwt |-> r.jwt,
               calls |-> <<"GenerateAccessToken", "GenerateRefreshToken">>]

\* AuthService.generateTokenPair
generateTokenPair(j, userID, fault) ==
    LET a == GenerateAccessToken(j, userID, fault) IN
    IF a.err # Nil
    THEN [err   |-> Errorf("generateTokenPair.GenerateAccessToken", a.err),
          pair  |-> EmptyTokenPair, jwt |-> a.jwt,
          calls |-> <<"GenerateAccessToken">>]
    ELSE LET r == GenerateRefreshToken(a.jwt, userID, fault) IN
         IF r.err # Nil
         THEN [err   |-> Errorf("generateTokenPair.GenerateRefreshToken", r.err),
               pair  |-> EmptyTokenPair, jwt |-> r.jwt,
               calls |-> <<"GenerateAccessToken", "GenerateRefreshToken">>]
         ELSE [err   |-> Nil,
               pair  |-> NewTokenPair(a.token, r.token), jwt |-> r.jwt,
               calls |-> <<"GenerateAccessToken", "GenerateRefreshToken">>]

\* LoginIssue with an unknown username told apart from a wrong password
LoginIssueDistinguishes(us, j, username, password, fault) ==
    LET g == GetByUsername(us, username, fault) IN
    IF g.err # Nil
    THEN [err    |-> IF ErrorsIs(g.err, ErrNotFound) THEN ErrUserNotFound ELSE g.err,
          pair   |-> EmptyTokenPair, userID |-> 0, jwt |-> j,
          calls  |-> <<"GetByUsername">>]
    ELSE IF ~VerifyPassword(password, g.user.PasswordHash, passwordSalt)
    THEN [err    |-> ErrInvalidLoginOrPassword,
          pair   |-> EmptyTokenPair, userID |-> g.user.ID, jwt |-> j,
          calls  |-> <<"GetByUsername", "VerifyPassword">>]
    ELSE LET t == generateTokenPair(j, g.user.ID, fault) IN
         [err    |-> IF t.err # Nil
                     THEN NewServiceError("AuthService.Login:", t.err)
                     ELSE Nil,
          pair   |-> t.pair, userID |-> g.user.ID, jwt |-> t.jwt,
          calls  |-> <<"GetByUsername", "VerifyPassword">> \o t.calls]

\* Login, up to the generated pair: the lookup, the verification, the generation
LoginIssue(us, j, username, password, fault) ==
    LET g == GetByUsername(us, username, fault) IN
    IF g.err # Nil
    THEN [err    |-> IF ErrorsIs(g.err, ErrNotFound)
                     THEN ErrInvalidLoginOrPassword
                     ELSE g.err,
          pair   |-> EmptyTokenPair, userID |-> 0, jwt |-> j,
          calls  |-> <<"GetByUsername">>]
    ELSE IF ~VerifyPassword(password, g.user.PasswordHash, passwordSalt)
    THEN [err    |-> ErrInvalidLoginOrPassword,
          pair   |-> EmptyTokenPair, userID |-> g.user.ID, jwt |-> j,
          calls  |-> <<"GetByUsername", "VerifyPassword">>]
    ELSE LET t == generateTokenPair(j, g.user.ID, fault) IN
         [err    |-> IF t.err # Nil
                     THEN NewServiceError("AuthService.Login:", t.err)
                     ELSE Nil,
          pair   |-> t.pair, userID |-> g.user.ID, jwt |-> t.jwt,
          calls  |-> <<"GetByUsername", "VerifyPassword">> \o t.calls]

\* LoginStore with an insert in place of the create-or-update
LoginStoreInsert(ts, userID, pair, fault) ==
    [err    |-> IF fault = "store"
                THEN NewServiceError("AuthService.Login: create or update token",
                                     ErrCollaborator("token repository"))
                ELSE Nil,
     pair   |-> IF fault = "store" THEN EmptyTokenPair ELSE pair,
     tokens |-> IF fault = "store"
                THEN ts
                ELSE ts \cup {[UserID       |-> userID,
                               RefreshToken |-> pair.RefreshToken,
                               UpdatedAt    |-> TimeNow]},
     calls  |-> <<"Create">>]

\* LoginStore leaving the record's UserID at its zero value
LoginStoreZeroID(ts, userID, pair, fault) ==
    LET c == CreateOrUpdate(ts, [UserID       |-> 0,
                                 RefreshToken |-> pair.RefreshToken,
                                 UpdatedAt    |-> TimeNow], fault) IN
    [err    |-> IF c.err # Nil
                THEN NewServiceError("AuthService.Login: create or update token", c.err)
                ELSE Nil,
     pair   |-> IF c.err # Nil THEN EmptyTokenPair ELSE pair,
     tokens |-> c.tokens,
     calls  |-> <<"CreateOrUpdate">>]

\* Login, from the generated pair on: the pair's refresh token is stored
LoginStore(ts, userID, pair, fault) ==
    LET c == CreateOrUpdate(ts, [UserID       |-> userID,
                                 RefreshToken |-> pair.RefreshToken,
                                 UpdatedAt    |-> TimeNow], fault) IN
    [err    |-> IF c.err # Nil
                THEN NewServiceError("AuthService.Login: create or update token", c.err)
                ELSE Nil,
     pair   |-> IF c.err # Nil THEN EmptyTokenPair ELSE pair,
     tokens |-> c.tokens,
     calls  |-> <<"CreateOrUpdate">>]

\* AuthService.Login
Login(us, ts, j, username, password, fault) ==
    LET i == LoginIssue(us, j, username, password, fault) IN
    IF i.err # Nil
    THEN [err |-> i.err, pair |-> EmptyTokenPair, user |-> EmptyUser,
          userID |-> i.userID, users |-> us, tokens |-> ts, jwt |-> i.jwt,
          calls |-> i.calls]
    ELSE LET s == LoginStore(ts, i.userID, i.pair, fault) IN
         [err |-> s.err, pair |-> s.pair, user |-> EmptyUser,
          userID |-> i.userID, users |-> us, tokens |-> s.tokens, jwt |-> i.jwt,
          calls |-> i.calls \o s.calls]

\* Register, up to the generated pair: the hash, the new user, the generation
RegisterIssue(us, j, username, password, fault) ==
    LET h == HashPassword(password, passwordSalt, fault) IN
    IF h.err # Nil
    THEN [err    |-> NewServiceError("AuthService.Register: hashing password", h.err),
          pair   |-> EmptyTokenPair, userID |-> 0, users |-> us, jwt |-> j,
          calls  |-> <<"HashPassword">>]
    ELSE LET c == Create(us, [Username     |-> username,
                              PasswordHash |-> h.hash,
                              Role         |-> RoleStudent,
                              CreatedAt    |-> TimeNow], fault) IN
    IF c.err # Nil
    THEN [err    |-> IF ErrorsIs(c.err, ErrAlreadyExists)
                     THEN ErrUsernameAlreadyTaken
                     ELSE NewServiceError("AuthService.Register: create user", c.err),
          pair   |-> EmptyTokenPair, userID |-> 0, users |-> c.users, jwt |-> j,
          calls  |-> <<"HashPassword", "Create">>]
    ELSE LET t == generateTokenPair(j, c.id, fault) IN
         [err    |-> IF t.err # Nil
                     THEN NewServiceError("AuthService.Register:", t.err)
                     ELSE Nil,
          pair   |-> t.pair, userID |-> c.id, users |-> c.users, jwt |-> t.jwt,
          calls  |-> <<"HashPassword", "Create">> \o t.calls]

\* RegisterStore storing the access token of the pair
RegisterStoreAccessToken(ts, userID, pair, fault) ==
    LET c == CreateOrUpdate(ts, [UserID       |-> userID,
                                 RefreshToken |-> pair.AccessToken,
                                 UpdatedAt    |-> TimeNow], fault) IN
    [err    |-> IF c.err # Nil
                THEN NewServiceError("AuthService.Register: create or update token", c.err)
                ELSE Nil,
     pair   |-> IF c.err # Nil THEN EmptyTokenPair ELSE pair,
     tokens |-> c.tokens,
     calls  |-> <<"CreateOrUpdate">>]

\* Register, from the generated pair on: the pair's refresh token is stored
RegisterStore(ts, userID, pair, fault) ==
    LET c == CreateOrUpdate(ts, [UserID       |-> userID,
                                 RefreshToken |-> pair.RefreshToken,
                                 UpdatedAt    |-> TimeNow], fault) IN
    [err    |-> IF c.err # Nil
                THEN NewServiceError("AuthService.Register: create or update token", c.err)
                ELSE Nil,
     pair   |-> IF c.err # Nil THEN EmptyTokenPair ELSE pair,
     tokens |-> c.tokens,
     calls  |-> <<"CreateOrUpdate">>]

\* Register going on to CreateOrUpdate after a failed token generation
RegisterNoEarlyReturn(us, ts, j, username, password, fault) ==
    LET i == RegisterIssue(us, j, username, password, fault)
        s == RegisterStore(ts, i.userID, i.pair, fault) IN
    IF i.userID = 0
    THEN [err |-> i.err, pair |-> EmptyTokenPair, user |-> EmptyUser,
          userID |-> i.userID, users |-> i.users, tokens |-> ts, jwt |-> i.jwt,
          calls |-> i.calls]
    ELSE [err |-> IF i.err # Nil THEN i.err ELSE s.err,
          pair |-> IF i.err # Nil THEN EmptyTokenPair ELSE s.pair,
          user |-> EmptyUser,
          userID |-> i.userID, users |-> i.users, tokens |-> s.tokens, jwt |-> i.jwt,
          calls |-> i.calls \o s.calls]

\* AuthService.Register
Register(us, ts, j, username, password, fault) ==
    LET i == RegisterIssue(us, j, username, password, fault) IN
    IF i.err # Nil
    THEN [err |-> i.err, pair |-> EmptyTokenPair, user |-> EmptyUser,
          userID |-> i.userID, users |-> i.users, tokens |-> ts, jwt |-> i.jwt,
          calls |-> i.calls]
    ELSE LET s == RegisterStore(ts, i.userID, i.pair, fault) IN
         [err |-> s.err, pair |-> s.pair, user |-> EmptyUser,
          userID |-> i.userID, users |-> i.users, tokens |-> s.tokens, jwt |-> i.jwt,
          calls |-> i.calls \o s.calls]

\* RefreshTokenIssue without the comparison with the stored token
RefreshTokenIssueNoCompare(ts, j, refreshToken, fault) ==
    LET p == ParseRefreshToken(refreshToken, fault) IN
    IF p.err # Nil
    THEN [err    |-> ErrInvalidRefreshToken,
          pair   |-> EmptyTokenPair, userID |-> 0, jwt |-> j,
          calls  |-> <<"ParseRefreshToken">>]
    ELSE LET g == GetByUserID(ts, p.userID, fault) IN
    IF g.err # Nil
    THEN [err    |-> IF ErrorsIs(g.err, ErrNotFound)
                     THEN ErrUserNotFound
                     ELSE NewServiceError("AuthService.RefreshToken: getting user by id",
                                          g.err),
          pair   |-> EmptyTokenPair, userID |-> p.userID, jwt |-> j,
          calls  |-> <<"ParseRefreshToken", "GetByUserID">>]
    ELSE LET t == generateTokenPair(j, p.userID, fault) IN
         [err    |-> IF t.err # Nil
                     THEN NewServiceError("AuthService.RefreshToken:", t.err)
                     ELSE Nil,
          pair   |-> t.pair, userID |-> p.userID, jwt |-> t.jwt,
          calls  |-> <<"ParseRefreshToken", "GetByUserID">> \o t.calls]

\* RefreshToken, up to the generated pair: the parse, the stored token, the
\* comparison, the generation
RefreshTokenIssue(ts, j, refreshToken, fault) ==
    LET p == ParseRefreshToken(refreshToken, fault) IN
    IF p.err # Nil
    THEN [err    |-> ErrInvalidRefreshToken,
          pair   |-> EmptyTokenPair, userID |-> 0, jwt |-> j,
          calls  |-> <<"ParseRefreshToken">>]
    ELSE LET g == GetByUserID(ts, p.userID, fault) IN
    IF g.err # Nil
    THEN [err    |-> IF ErrorsIs(g.err, ErrNotFound)
                     THEN ErrUserNotFound
                     ELSE NewServiceError("AuthService.RefreshToken: getting user by id",
                                          g.err),
          pair   |-> EmptyTokenPair, userID |-> p.userID, jwt |-> j,
          calls  |-> <<"ParseRefreshToken", "GetByUserID">>]
    ELSE IF g.token.RefreshToken # refreshToken
    THEN [err    |-> ErrInvalidRefreshToken,
          pair   |-> EmptyTokenPair, userID |-> p.userID, jwt |-> j,
          calls  |-> <<"ParseRefreshToken", "GetByUserID">>]
    ELSE LET t == generateTokenPair(j, p.userID, fault) IN
         [err    |-> IF t.err # Nil
                     THEN NewServiceError("AuthService.RefreshToken:", t.err)
                     ELSE Nil,
          pair   |-> t.pair, userID |-> p.userID, jwt |-> t.jwt,
          calls  |-> <<"ParseRefreshToken", "GetByUserID">> \o t.calls]

\* RefreshTokenStore creating the record only when the user has none
RefreshTokenStoreIfAbsent(ts, userID, pair, fault) ==
    [err    |-> IF fault = "store"
                THEN NewServiceError("AuthService.RefreshToken: create or update token",
                                     ErrCollaborator("token repository"))
                ELSE Nil,
     pair   |-> IF fault = "store" THEN EmptyTokenPair ELSE pair,
     tokens |-> IF fault = "store" \/ \E r \in ts : r.UserID = userID
                THEN ts
                ELSE ts \cup {[UserID       |-> userID,
                               RefreshToken |-> pair.RefreshToken,
                               UpdatedAt    |-> TimeNow]},
     calls  |-> <<"CreateOrUpdate">>]

\* RefreshTokenStore leaving the new record as the only one
RefreshTokenStoreReplacesAll(ts, userID, pair, fault) ==
    LET c == CreateOrUpdate({}, [UserID       |-> userID,
                                 RefreshToken |-> pair.RefreshToken,
                                 UpdatedAt    |-> TimeNow], fault) IN
    [err    |-> IF c.err # Nil
                THEN NewServiceError("AuthService.RefreshToken: create or update token",
                                     c.err)
                ELSE Nil,
     pair   |-> IF c.err # Nil THEN EmptyTokenPair ELSE pair,
     tokens |-> IF c.err # Nil THEN ts ELSE c.tokens,
     calls  |-> <<"CreateOrUpdate">>]

\* RefreshToken, from the generated pair on: the pair's refresh token is stored
RefreshTokenStore(ts, userID, pair, fault) ==
    LET c == CreateOrUpdate(ts, [UserID       |-> userID,
                                 RefreshToken |-> pair.RefreshToken,
                                 UpdatedAt    |-> TimeNow], fault) IN
    [err    |-> IF c.err # Nil
                THEN NewServiceError("AuthService.RefreshToken: create or update token",
                                     c.err)
                ELSE Nil,
     pair   |-> IF c.err # Nil THEN EmptyTokenPair ELSE pair,
     tokens |-> c.tokens,
     calls  |-> <<"CreateOrUpdate">>]

\* RefreshToken answering a user without a stored token as an invalid token
RefreshTokenHidesMissing(us, ts, j, refreshToken, fault) ==
    LET i == RefreshTokenIssue(ts, j, refreshToken, fault) IN
    IF i.err # Nil
    THEN [err |-> IF i.err = ErrUserNotFound THEN ErrInvalidRefreshToken ELSE i.err,
          pair |-> EmptyTokenPair, user |-> EmptyUser,
          userID |-> i.userID, users |-> us, tokens |-> ts, jwt |-> i.jwt,
          calls |-> i.calls]
    ELSE LET s == RefreshTokenStore(ts, i.userID, i.pair, fault) IN
         [err |-> s.err, pair |-> s.pair, user |-> EmptyUser,
          userID |-> i.userID, users |-> us, tokens |-> s.tokens, jwt |-> i.jwt,
          calls |-> i.calls \o s.calls]

\* RefreshToken returning the generated pair without storing its refresh token
RefreshTokenNotStored(us, ts, j, refreshToken, fault) ==
    LET i == RefreshTokenIssue(ts, j, refreshToken, fault) IN
    [err |-> i.err, pair |-> IF i.err # Nil THEN EmptyTokenPair ELSE i.pair,
     user |-> EmptyUser, userID |-> i.userID, users |-> us, tokens |-> ts,
     jwt |-> i.jwt, calls |-> i.calls]

\* RefreshToken reading the token repository before it parses the token
RefreshTokenLookupFirst(us, ts, j, refreshToken, fault) ==
    LET g == GetByUserID(ts, refreshToken.uid, fault)
        i == RefreshTokenIssue(ts, j, refreshToken, fault) IN
    IF i.err # Nil
    THEN [err |-> i.err, pair |-> EmptyTokenPair, user |-> EmptyUser,
          userID |-> i.userID, users |-> us, tokens |-> ts, jwt |-> i.jwt,
          calls |-> <<"GetByUserID">> \o i.calls]
    ELSE LET s == RefreshTokenStore(ts, i.userID, i.pair, fault) IN
         [err |-> s.err, pair |-> s.pair, user |-> EmptyUser,
          userID |-> i.userID, users |-> us, tokens |-> s.tokens, jwt |-> i.jwt,
          calls |-> <<"GetByUserID">> \o i.calls \o s.calls]

\* RefreshToken revoking the session when a token other than the stored one is
\* presented
RefreshTokenRevokes(us, ts, j, refreshToken, fault) ==
    LET i == RefreshTokenIssue(ts, j, refreshToken, fault) IN
    IF i.err # Nil
    THEN [err |-> i.err, pair |-> EmptyTokenPair, user |-> EmptyUser,
          userID |-> i.userID, users |-> us,
          tokens |-> IF i.err = ErrInvalidRefreshToken
                     THEN {r \in ts : r.UserID # i.userID}
                     ELSE ts,
          jwt |-> i.jwt, calls |-> i.calls]
    ELSE LET s == RefreshTokenStore(ts, i.userID, i.pair, fault) IN
         [err |-> s.err, pair |-> s.pair, user |-> EmptyUser,
          userID |-> i.userID, users |-> us, tokens |-> s.tokens, jwt |-> i.jwt,
          calls |-> i.calls \o s.calls]

\* AuthService.RefreshToken
RefreshToken(us, ts, j, refreshToken, fault) ==
    LET i == RefreshTokenIssue(ts, j, refreshToken, fault) IN
    IF i.err # Nil
    THEN [err |-> i.err, pair |-> EmptyTokenPair, user |-> EmptyUser,
          userID |-> i.userID, users |-> us, tokens |-> ts, jwt |-> i.jwt,
          calls |-> i.calls]
    ELSE LET s == RefreshTokenStore(ts, i.userID, i.pair, fault) IN
         [err |-> s.err, pair |-> s.pair, user |-> EmptyUser,
          userID |-> i.userID, users |-> us, tokens |-> s.tokens, jwt |-> i.jwt,
          calls |-> i.calls \o s.calls]

\* GetUserFromAccessToken resolving only users who have a stored refresh token
GetUserFromAccessTokenNeedsSession(us, ts, j, accessToken, fault) ==
    LET p == ParseAccessToken(accessToken, fault) IN
    IF p.err # Nil
    THEN [err |-> ErrInvalidAccessToken, pair |-> EmptyTokenPair, user |-> EmptyUser,
          userID |-> 0, users |-> us, tokens |-> ts, jwt |-> j,
          calls |-> <<"ParseAccessToken">>]
    ELSE LET g == GetByID(us, p.userID, fault)
             t == GetByUserID(ts, p.userID, "none") IN
    IF g.err # Nil \/ t.err # Nil
    THEN [err |-> ErrUserNotFound, pair |-> EmptyTokenPair, user |-> EmptyUser,
          userID |-> p.userID, users |-> us, tokens |-> ts, jwt |-> j,
          calls |-> <<"ParseAccessToken", "GetByID", "GetByUserID">>]
    ELSE [err |-> Nil, pair |-> EmptyTokenPair, user |-> g.user,
          userID |-> p.userID, users |-> us, tokens |-> ts, jwt |-> j,
          calls |-> <<"ParseAccessToken", "GetByID", "GetByUserID">>]

\* GetUserFromAccessToken answering a missing user as an invalid token
GetUserFromAccessTokenInvalid(us, ts, j, accessToken, fault) ==
    LET p == ParseAccessToken(accessToken, fault) IN
    IF p.err # Nil
    THEN [err |-> ErrInvalidAccessToken, pair |-> EmptyTokenPair, user |-> EmptyUser,
          userID |-> 0, users |-> us, tokens |-> ts, jwt |-> j,
          calls |-> <<"ParseAccessToken">>]
    ELSE LET g == GetByID(us, p.userID, fault) IN
    IF g.err # Nil
    THEN [err |-> ErrInvalidAccessToken, pair |-> EmptyTokenPair, user |-> EmptyUser,
          userID |-> p.userID, users |-> us, tokens |-> ts, jwt |-> j,
          calls |-> <<"ParseAccessToken", "GetByID">>]
    ELSE [err |-> Nil, pair |-> EmptyTokenPair, user |-> g.user,
          userID |-> p.userID, users |-> us, tokens |-> ts, jwt |-> j,
          calls |-> <<"ParseAccessToken", "GetByID">>]

\* AuthService.GetUserFromAccessToken
GetUserFromAccessToken(us, ts, j, accessToken, fault) ==
    LET p == ParseAccessToken(accessToken, fault) IN
    IF p.err # Nil
    THEN [err |-> ErrInvalidAccessToken, pair |-> EmptyTokenPair, user |-> EmptyUser,
          userID |-> 0, users |-> us, tokens |-> ts, jwt |-> j,
          calls |-> <<"ParseAccessToken">>]
    ELSE LET g == GetByID(us, p.userID, fault) IN
    IF g.err # Nil
    THEN [err |-> ErrUserNotFound, pair |-> EmptyTokenPair, user |-> EmptyUser,
          userID |-> p.userID, users |-> us, tokens |-> ts, jwt |-> j,
          calls |-> <<"ParseAccessToken", "GetByID">>]
    ELSE [err |-> Nil, pair |-> EmptyTokenPair, user |-> g.user,
          userID |-> p.userID, users |-> us, tokens |-> ts, jwt |-> j,
          calls |-> <<"ParseAccessToken", "GetByID">>]

----------------------------------------------------------------------------
(* ClassService (src/unnamed/part_000) and its collaborators, the class    *)
(* and schedule repositories.  The repositories' create-or-split and       *)
(* update-or-switch are opaque to the service: here the first adds one     *)
(* class and the second replaces the class's content.                      *)

MaxClasses == 2

ScheduleIDs == {1, 2}
ClassIDs    == 1..(MaxClasses + 1)
Contents    == {"algebra", "physics"}

\* domain.Class{}
EmptyClass == [ID |-> 0, ScheduleID |-> 0, Content |-> ""]
\* domain.Schedule{}
EmptySchedule == [ID |-> 0, UserID |-> 0]

\* ClassRepository.GetByID(id) -> Class | error
ClassRepositoryGetByID(cs, id, fault) ==
    IF fault = "classLookup"
    THEN [err |-> ErrCollaborator("class repository"), class |-> EmptyClass]
    ELSE IF \E c \in cs : c.ID = id
         THEN [err |-> Nil, class |-> CHOOSE c \in cs : c.ID = id]
         ELSE [err |-> ErrNotFound, class |-> EmptyClass]

\* ScheduleRepository.GetByID(id) -> Schedule | error
ScheduleRepositoryGetByID(ss, id, fault) ==
    IF fault = "scheduleLookup"
    THEN [err |-> ErrCollaborator("schedule repository"), schedule |-> EmptySchedule]
    ELSE IF \E x \in ss : x.ID = id
         THEN [err |-> Nil, schedule |-> CHOOSE x \in ss : x.ID = id]
         ELSE [err |-> ErrNotFound, schedule |-> EmptySchedule]

\* ClassRepository.CreateOrSplit(dto) -> id | error
CreateOrSplit(cs, nid, class, fault) ==
    IF fault = "write"
    THEN [err |-> ErrCollaborator("class repository"), id |-> 0,
          classes |-> cs, nextClassID |-> nid]
    ELSE [err |-> Nil, id |-> nid,
          classes |-> cs \cup {[ID |-> nid, ScheduleID |-> class.ScheduleID,
                                Content |-> class.Content]},
          nextClassID |-> nid + 1]

\* ClassRepository.UpdateOrSwitch(id, scheduleID, update) -> error
UpdateOrSwitch(cs, id, scheduleID, update, fault) ==
    IF fault = "write"
    THEN [err |-> ErrCollaborator("class repository"), classes |-> cs]
    ELSE [err |-> Nil,
          classes |-> {IF c.ID = id /\ c.ScheduleID = scheduleID
                       THEN [c EXCEPT !.Content = update.Content]
                       ELSE c : c \in cs}]

\* ClassRepository.Delete(id) -> error
ClassRepositoryDelete(cs, id, fault) ==
    IF fault = "write"
    THEN [err |-> ErrCollaborator("class repository"), classes |-> cs]
    ELSE [err |-> Nil, classes |-> {c \in cs : c.ID # id}]

\* ClassRepository.GetAllViews(scheduleID) -> views, _, error
GetAllViews(cs, scheduleID, fault) ==
    IF fault = "classLookup"
    THEN [err |-> ErrCollaborator("class repository"), views |-> {}]
    ELSE [err |-> Nil, views |-> {c \in cs : c.ScheduleID = scheduleID}]

\* a ClassService handler's result
ClassResult(err, id, class, views, cs, nid, calls) ==
    [err |-> err, id |-> id, class |-> class, views |-> views,
     classes |-> cs, nextClassID |-> nid, calls |-> calls]

\* ClassService.Create
ClassServiceCreate(cs, nid, class, fault) ==
    LET c == CreateOrSplit(cs, nid, class, fault) IN
    IF c.err # Nil
    THEN ClassResult(c.err, 0, EmptyClass, {}, c.classes, c.nextClassID,
                     <<"CreateOrSplit">>)
    ELSE ClassResult(Nil, c.id, EmptyClass, {}, c.classes, c.nextClassID,
                     <<"CreateOrSplit">>)

\* ClassService.GetByID
ClassServiceGetByID(cs, nid, id, fault) ==
    LET c == ClassRepositoryGetByID(cs, id, fault) IN
    ClassResult(c.err, 0, c.class, {}, cs, nid, <<"ClassRepository.GetByID">>)

\* ClassService.GetAll
ClassServiceGetAll(cs, nid, scheduleID, fault) ==
    LET v == GetAllViews(cs, scheduleID, fault) IN
    ClassResult(v.err, 0, EmptyClass, v.views, cs, nid, <<"GetAllViews">>)

\* ClassService.Update with the write made before the owner is checked
ClassServiceUpdateWritesFirst(cs, ss, nid, userID, id, update, fault) ==
    LET c == ClassRepositoryGetByID(cs, id, fault) IN
    IF c.err # Nil
    THEN ClassResult(c.err, 0, EmptyClass, {}, cs, nid, <<"ClassRepository.GetByID">>)
    ELSE LET x == ScheduleRepositoryGetByID(ss, c.class.ScheduleID, fault) IN
    IF x.err # Nil
    THEN ClassResult(x.err, 0, EmptyClass, {}, cs, nid,
                     <<"ClassRepository.GetByID", "ScheduleRepository.GetByID">>)
    ELSE LET w == UpdateOrSwitch(cs, id, c.class.ScheduleID, update, fault) IN
         ClassResult(IF x.schedule.UserID # userID THEN ErrDontHavePermission ELSE w.err,
                     0, EmptyClass, {}, w.classes, nid,
                     <<"ClassRepository.GetByID", "ScheduleRepository.GetByID",
                       "UpdateOrSwitch">>)

\* ClassService.Update
ClassServiceUpdate(cs, ss, nid, userID, id, update, fault) ==
    LET c == ClassRepositoryGetByID(cs, id, fault) IN
    IF c.err # Nil
    THEN ClassResult(c.err, 0, EmptyClass, {}, cs, nid, <<"ClassRepository.GetByID">>)
    ELSE LET x == ScheduleRepositoryGetByID(ss, c.class.ScheduleID, fault) IN
    IF x.err # Nil
    THEN ClassResult(x.err, 0, EmptyClass, {}, cs, nid,
                     <<"ClassRepository.GetByID", "ScheduleRepository.GetByID">>)
    ELSE IF x.schedule.UserID # userID
    THEN ClassResult(ErrDontHavePermission, 0, EmptyClass, {}, cs, nid,
                     <<"ClassRepository.GetByID", "ScheduleRepository.GetByID">>)
    ELSE LET w == UpdateOrSwitch(cs, id, c.class.ScheduleID, update, fault) IN
         ClassResult(w.err, 0, EmptyClass, {}, w.classes, nid,
                     <<"ClassRepository.GetByID", "ScheduleRepository.GetByID",
                       "UpdateOrSwitch">>)

\* ClassService.isScheduleOwner
isScheduleOwner(cs, ss, userID, classID, fault) ==
    LET e == ClassRepositoryGetByID(cs, classID, fault) IN
    IF e.err # Nil
    THEN [err |-> e.err, calls |-> <<"ClassRepository.GetByID">>]
    ELSE LET x == ScheduleRepositoryGetByID(ss, e.class.ScheduleID, fault) IN
    IF x.err # Nil
    THEN [err |-> x.err,
          calls |-> <<"ClassRepository.GetByID", "ScheduleRepository.GetByID">>]
    ELSE IF x.schedule.UserID # userID
    THEN [err |-> ErrDontHavePermission,
          calls |-> <<"ClassRepository.GetByID", "ScheduleRepository.GetByID">>]
    ELSE [err |-> Nil,
          calls |-> <<"ClassRepository.GetByID", "ScheduleRepository.GetByID">>]

\* ClassService.Delete deleting whatever the owner check answers
ClassServiceDeleteUnchecked(cs, ss, nid, userID, id, fault) ==
    LET o == isScheduleOwner(cs, ss, userID, id, fault)
        d == ClassRepositoryDelete(cs, id, fault) IN
    ClassResult(d.err, 0, EmptyClass, {}, d.classes, nid,
                o.calls \o <<"ClassRepository.Delete">>)

\* ClassService.Delete
ClassServiceDelete(cs, ss, nid, userID, id, fault) ==
    LET o == isScheduleOwner(cs, ss, userID, id, fault) IN
    IF o.err # Nil
    THEN ClassResult(o.err, 0, EmptyClass, {}, cs, nid, o.calls)
    ELSE LET d == ClassRepositoryDelete(cs, id, fault) IN
         ClassResult(d.err, 0, EmptyClass, {}, d.classes, nid,
                     o.calls \o <<"ClassRepository.Delete">>)

----------------------------------------------------------------------------
(* The sequential system: AuthService calls made one after the other, each *)
(* a whole handler; the caller takes a call's result before the next call. *)

LoginFaults        == {"none", "lookup", "genAccess", "genRefresh", "store"}
RegisterFaults     == {"none", "hash", "create", "genAccess", "genRefresh", "store"}
RefreshTokenFaults == {"none", "parse", "lookup", "genAccess", "genRefresh", "store"}
GetUserFaults      == {"none", "parse", "lookup"}

\* what a caller observes of a call, and what the call was
Observation(op, username, password, token, fault, r) ==
    [op |-> op, username |-> username, password |-> password, token |-> token,
     fault |-> fault, err |-> r.err, pair |-> r.pair, user |-> r.user,
     userID |-> r.userID, calls |-> r.calls]

NoCall ==
    [op |-> "none", username |-> "", password |-> "", token |-> EmptyString,
     fault |-> "none", err |-> Nil, pair |-> EmptyTokenPair, user |-> EmptyUser,
     userID |-> 0, calls |-> <<>>]

\* the history of the refresh tokens handed to callers
Returned(r) ==
    /\ current' = IF r.err = Nil
                  THEN [current EXCEPT ![r.userID] = r.pair]
                  ELSE current
    /\ superseded' = IF r.err = Nil /\ current[r.userID] # EmptyTokenPair
                     THEN superseded \cup {current[r.userID].RefreshToken}
                     ELSE superseded

Commit(r) ==
    /\ last = NoCall
    /\ r.jwt <= MaxIssued
    /\ users' = r.users
    /\ tokens' = r.tokens
    /\ jwt' = r.jwt
    /\ UNCHANGED <<classVars, concVars>>

NoClassCall ==
    [op |-> "none", userID |-> 0, id |-> 0, scheduleID |-> 0, content |-> "",
     fault |-> "none", err |-> Nil, created |-> 0, class |-> EmptyClass,
     views |-> {}, calls |-> <<>>]

Procs == {1, 2}

NoLocals ==
    [op |-> "none", username |-> "", password |-> "", token |-> EmptyString,
     fault |-> "none", userID |-> 0, generated |-> EmptyTokenPair,
     err |-> Nil, pair |-> EmptyTokenPair]

ConcIdle ==
    /\ pc = [p \in Procs |-> "idle"]
    /\ loc = [p \in Procs |-> NoLocals]
    /\ lastWrite = [u \in UserIDs |-> 0]

AuthInit ==
    /\ users = <<>>
    /\ tokens = {}
    /\ jwt = 0
    /\ last = NoCall
    /\ current = [u \in UserIDs |-> EmptyTokenPair]
    /\ superseded = {}

Init ==
    /\ AuthInit
    /\ ConcIdle
    /\ classes = {}
    /\ schedules = {}
    /\ nextClassID = 1
    /\ clast = NoClassCall

DoLogin ==
    \E username \in Usernames, password \in Passwords, fault \in LoginFaults :
        LET r == Login(users, tokens, jwt, username, password, fault) IN
        /\ Commit(r)
        /\ Returned(r)
        /\ last' = Observation("Login", username, password, EmptyString, fault, r)

DoRegister ==
    \E username \in Usernames, password \in Passwords, fault \in RegisterFaults :
        LET r == Register(users, tokens, jwt, username, password, fault) IN
        /\ Commit(r)
        /\ Returned(r)
        /\ last' = Observation("Register", username, password, EmptyString, fault, r)

DoRefreshToken ==
    \E token \in TokenStrings(jwt), fault \in RefreshTokenFaults :
        LET r == RefreshToken(users, tokens, jwt, token, fault) IN
        /\ Commit(r)
        /\ Returned(r)
        /\ last' = Observation("RefreshToken", "", "", token, fault, r)

DoGetUserFromAccessToken ==
    \E token \in TokenStrings(jwt), fault \in GetUserFaults :
        LET r == GetUserFromAccessToken(users, tokens, jwt, token, fault) IN
        /\ Commit(r)
        /\ UNCHANGED <<current, superseded>>
        /\ last' = Observation("GetUserFromAccessToken", "", "", token, fault, r)

\* the caller has taken the result of the last call
Return ==
    /\ last # NoCall
    /\ last' = NoCall
    /\ UNCHANGED <<users, tokens, jwt, current, superseded>>
    /\ UNCHANGED <<classVars, concVars>>

Next ==
    \/ DoLogin
    \/ DoRegister
    \/ DoRefreshToken
    \/ DoGetUserFromAccessToken
    \/ Return

Spec == Init /\ [][Next]_vars

----------------------------------------------------------------------------
(* The class service: ClassService calls made one after the other, over    *)
(* the schedules the schedule repository holds.                            *)

ClassFaults == {"none", "classLookup", "scheduleLookup", "write"}

ClassObservation(op, userID, id, scheduleID, content, fault, r) ==
    [op |-> op, userID |-> userID, id |-> id, scheduleID |-> scheduleID,
     content |-> content, fault |-> fault, err |-> r.err, created |-> r.id,
     class |-> r.class, views |-> r.views, calls |-> r.calls]

\* the schedule repository holds any schedules, each owned by one user
ClassInit ==
    /\ AuthInit
    /\ ConcIdle
    /\ classes = {}
    /\ \E owner \in [ScheduleIDs -> {0} \cup UserIDs] :
          schedules = {[ID |-> i, UserID |-> owner[i]] :
                          i \in {k \in ScheduleIDs : owner[k] # 0}}
    /\ nextClassID = 1
    /\ clast = NoClassCall

ClassCommit(r) ==
    /\ clast = NoClassCall
    /\ r.nextClassID <= MaxClasses + 1
    /\ classes' = r.classes
    /\ nextClassID' = r.nextClassID
    /\ UNCHANGED schedules
    /\ UNCHANGED <<authVars, concVars>>

DoClassCreate ==
    \E scheduleID \in ScheduleIDs, content \in Contents, fault \in {"none", "write"} :
        LET r == ClassServiceCreate(classes, nextClassID,
                                    [ScheduleID |-> scheduleID, Content |-> content],
                                    fault) IN
        /\ ClassCommit(r)
        /\ clast' = ClassObservation("Create", 0, 0, scheduleID, content, fault, r)

DoClassGetByID ==
    \E id \in ClassIDs, fault \in {"none", "classLookup"} :
        LET r == ClassServiceGetByID(classes, nextClassID, id, fault) IN
        /\ ClassCommit(r)
        /\ clast' = ClassObservation("GetByID", 0, id, 0, "", fault, r)

DoClassGetAll ==
    \E scheduleID \in ScheduleIDs, fault \in {"none", "classLookup"} :
        LET r == ClassServiceGetAll(classes, nextClassID, scheduleID, fault) IN
        /\ ClassCommit(r)
        /\ clast' = ClassObservation("GetAll", 0, 0, scheduleID, "", fault, r)

DoClassUpdate ==
    \E userID \in UserIDs, id \in ClassIDs, content \in Contents, fault \in ClassFaults :
        LET r == ClassServiceUpdate(classes, schedules, nextClassID, userID, id,
                                    [Content |-> content], fault) IN
        /\ ClassCommit(r)
        /\ clast' = ClassObservation("Update", userID, id, 0, content, fault, r)

DoClassDelete ==
    \E userID \in UserIDs, id \in ClassIDs, fault \in ClassFaults :
        LET r == ClassServiceDelete(classes, schedules, nextClassID, userID, id, fault) IN
        /\ ClassCommit(r)
        /\ clast' = ClassObservation("Delete", userID, id, 0, "", fault, r)

\* the caller has taken the result of the last call
ClassReturn ==
    /\ clast # NoClassCall
    /\ clast' = NoClassCall
    /\ UNCHANGED <<classes, schedules, nextClassID>>
    /\ UNCHANGED <<authVars, concVars>>

ClassNext ==
    \/ DoClassCreate
    \/ DoClassGetByID
    \/ DoClassGetAll
    \/ DoClassUpdate
    \/ DoClassDelete
    \/ ClassReturn

ClassSpec == ClassInit /\ [][ClassNext]_vars

----------------------------------------------------------------------------
(* The concurrent system: each process makes one Login or RefreshToken     *)
(* call; the calls' repository accesses interleave.  A call's first step   *)
(* runs it up to the generated pair (its read of a repository, then the    *)
(* generation, which reads and writes no repository); its second step is   *)
(* CreateOrUpdate and the return.  The calls start from the repositories   *)
(* a registration leaves behind.                                           *)

Registered == Register(<<>>, {}, 0, "alice", "pw1", "none")

ConcInit ==
    /\ users = Registered.users
    /\ tokens = Registered.tokens
    /\ jwt = Registered.jwt
    /\ last = NoCall
    /\ current = [u \in UserIDs |-> EmptyTokenPair]
    /\ superseded = {}
    /\ ConcIdle
    /\ classes = {}
    /\ schedules = {}
    /\ nextClassID = 1
    /\ clast = NoClassCall

\* the first step's outcome: the call has returned an error, or holds a pair
Issued(p, op, username, password, token, fault, i) ==
    /\ i.jwt <= MaxIssued
    /\ jwt' = i.jwt
    /\ pc' = [pc EXCEPT ![p] = IF i.err # Nil THEN "done" ELSE "store"]
    /\ loc' = [loc EXCEPT ![p] =
                  [op |-> op, username |-> username, password |-> password,
                   token |-> token, fault |-> fault, userID |-> i.userID,
                   generated |-> i.pair, err |-> i.err, pair |-> EmptyTokenPair]]
    /\ UNCHANGED <<users, tokens, lastWrite, last, current, superseded>>
    /\ UNCHANGED classVars

\* the second step's outcome: the call has returned
Stores(p, s) ==
    /\ tokens' = s.tokens
    /\ pc' = [pc EXCEPT ![p] = "done"]
    /\ loc' = [loc EXCEPT ![p].err = s.err, ![p].pair = s.pair]
    /\ lastWrite' = IF s.err = Nil
                    THEN [lastWrite EXCEPT ![loc[p].userID] = p]
                    ELSE lastWrite
    /\ UNCHANGED <<users, jwt, last, current, superseded>>
    /\ UNCHANGED classVars

ConcLoginIssue(p) ==
    /\ pc[p] = "idle"
    /\ \E username \in Usernames, password \in Passwords, fault \in LoginFaults :
          Issued(p, "Login", username, password, EmptyString, fault,
                 LoginIssue(users, jwt, username, password, fault))

ConcLoginStore(p) ==
    /\ pc[p] = "store" /\ loc[p].op = "Login"
    /\ Stores(p, LoginStore(tokens, loc[p].userID, loc[p].generated, loc[p].fault))

ConcRefreshTokenIssue(p) ==
    /\ pc[p] = "idle"
    /\ \E token \in TokenStrings(jwt), fault \in RefreshTokenFaults :
          Issued(p, "RefreshToken", "", "", token, fault,
                 RefreshTokenIssue(tokens, jwt, token, fault))

ConcRefreshTokenStore(p) ==
    /\ pc[p] = "store" /\ loc[p].op = "RefreshToken"
    /\ Stores(p, RefreshTokenStore(tokens, loc[p].userID, loc[p].generated,
                                   loc[p].fault))

ConcNext ==
    \E p \in Procs :
        \/ ConcLoginIssue(p)
        \/ ConcLoginStore(p)
        \/ ConcRefreshTokenIssue(p)
        \/ ConcRefreshTokenStore(p)

ConcSpec == ConcInit /\ [][ConcNext]_vars

----------------------------------------------------------------------------
(* Properties of the sequential system.  A step that makes a call leads    *)
(* from a state with last = NoCall to the state holding the call's         *)
(* observation.                                                            *)

Called(op) == last = NoCall /\ last'.op = op

\* the refresh token stored for user ID u, EmptyString when there is none
Stored(ts, u) == GetByUserID(ts, u, "none").token.RefreshToken
HasSession(ts, u) == \E r \in ts : r.UserID = u

Generates(calls) ==
    \E k \in 1..Len(calls) : calls[k] \in {"GenerateAccessToken", "GenerateRefreshToken"}
Touches(calls, names) ==
    \E k \in 1..Len(calls) : calls[k] \in names

\* C1: refresh-token rotation.  With no collaborator failure, RefreshToken
\* presenting the refresh token of the pair most recently returned for a user
\* (by Login, Register or RefreshToken) succeeds and returns a pair that differs
\* from that pair, with a refresh token that differs from it and from every
\* refresh token returned before; RefreshToken presenting a refresh token that
\* was returned and has since been replaced fails with InvalidRefreshToken.  The
\* new pair is then the one most recently returned, so the same holds of it, at
\* every depth of the chain.
C1_Rotation ==
    [][ (Called("RefreshToken") /\ last'.fault = "none") =>
          LET t == last'.token IN
          /\ (t.kind = "refresh" /\ current[t.uid] # EmptyTokenPair
                /\ t = current[t.uid].RefreshToken) =>
                /\ last'.err = Nil
                /\ last'.pair # current[t.uid]
                /\ last'.pair.RefreshToken # t
                /\ last'.pair.RefreshToken \notin superseded
                /\ current'[t.uid] = last'.pair
                /\ t \in superseded'
          /\ (t \in superseded) => last'.err = ErrInvalidRefreshToken
      ]_vars

\* C1 witness: a superseded refresh token is rejected at depth two of the chain
\* (two refresh tokens of the user have been replaced, a third is current).
C1_Witness ==
    /\ last.op = "RefreshToken" /\ last.fault = "none"
    /\ last.token \in superseded
    /\ last.err = ErrInvalidRefreshToken
    /\ \E t2 \in superseded : t2.uid = last.token.uid /\ t2.n > last.token.n
    /\ current[last.token.uid] # EmptyTokenPair

\* C2: only the stored refresh token of a user is valid.  A RefreshToken call
\* whose token parses to a user with stored refresh token s succeeds only if the
\* token is s; with another token it returns InvalidRefreshToken, generates no
\* token and leaves the token repository unchanged, and RefreshToken(s) still
\* succeeds afterwards.
C2_OnlyStoredTokenValid ==
    [][ (Called("RefreshToken")
           /\ ParseRefreshToken(last'.token, last'.fault).err = Nil
           /\ last'.fault # "lookup"
           /\ HasSession(tokens, last'.token.uid)) =>
          LET t == last'.token
              s == Stored(tokens, t.uid) IN
          /\ last'.err = Nil => t = s
          /\ t # s =>
                /\ last'.err = ErrInvalidRefreshToken
                /\ last'.pair = EmptyTokenPair
                /\ ~Generates(last'.calls)
                /\ jwt' = jwt
                /\ tokens' = tokens
                /\ RefreshToken(users', tokens', jwt', s, "none").err = Nil
      ]_vars

\* C2 witness: a refresh token that was never returned for the user (it parses
\* to the user, and is not the stored one) has been rejected.
C2_Witness ==
    /\ last.op = "RefreshToken" /\ last.fault = "none"
    /\ last.token.kind = "refresh"
    /\ HasSession(tokens, last.token.uid)
    /\ last.token # Stored(tokens, last.token.uid)
    /\ last.token \notin superseded
    /\ last.err = ErrInvalidRefreshToken

\* the user repository holds a user of this name
HasUsername(us, username) == \E i \in 1..Len(us) : us[i].Username = username

\* C3: Login answers an unknown username and a wrong password alike.  When the
\* user repository reports no user of the name, and when it returns the user
\* and the password fails verification against the stored hash, Login returns
\* exactly InvalidLoginOrPassword, with the empty pair; no token is generated
\* and the token repository is unchanged.
C3_LoginFailuresCollapse ==
    [][ (Called("Login") /\ last'.fault # "lookup"
           /\ \/ ~HasUsername(users, last'.username)
              \/ ~VerifyPassword(last'.password,
                                 GetByUsername(users, last'.username, "none").user.PasswordHash,
                                 passwordSalt)) =>
          /\ last'.err = ErrInvalidLoginOrPassword
          /\ last'.pair = EmptyTokenPair
          /\ ~Generates(last'.calls)
          /\ ~Touches(last'.calls, {"CreateOrUpdate", "GetByUserID"})
          /\ jwt' = jwt
          /\ tokens' = tokens
          /\ users' = users
      ]_vars

\* C3 witness: a registered user with a stored session has presented a wrong
\* password.
C3_Witness ==
    /\ last.op = "Login"
    /\ HasUsername(users, last.username)
    /\ last.userID # 0 /\ HasSession(tokens, last.userID)
    /\ last.calls = <<"GetByUsername", "VerifyPassword">>
    /\ last.err = ErrInvalidLoginOrPassword

\* C4: the token repository holds at most one refresh token per user ID, and
\* right after a successful Login, Register or RefreshToken the one record of
\* the user the call acted for holds the refresh token of the returned pair.
C4_OneStoredTokenPerUser ==
    /\ \A u \in UserIDs : Cardinality({r \in tokens : r.UserID = u}) <= 1
    /\ \A r \in tokens : r.UserID \in UserIDs
    /\ (last.op \in {"Login", "Register", "RefreshToken"} /\ last.err = Nil) =>
          /\ last.pair # EmptyTokenPair
          /\ {r.RefreshToken : r \in {q \in tokens : q.UserID = last.userID}}
                = {last.pair.RefreshToken}

\* C4 witness: a successful Login has replaced the stored refresh token of a
\* user who had one.
C4_Witness ==
    /\ last.op = "Login" /\ last.err = Nil
    /\ \E t \in superseded : t.uid = last.userID
    /\ Stored(tokens, last.userID) = last.pair.RefreshToken

\* C5: RefreshToken with a token that ParseRefreshToken rejects returns
\* InvalidRefreshToken and makes no other collaborator call: neither
\* GetByUserID nor CreateOrUpdate, and no token generation; the token
\* repository is unchanged.
C5_RejectedTokenTouchesNothing ==
    [][ (Called("RefreshToken")
           /\ ParseRefreshToken(last'.token, last'.fault).err # Nil) =>
          /\ last'.err = ErrInvalidRefreshToken
          /\ last'.pair = EmptyTokenPair
          /\ last'.calls = <<"ParseRefreshToken">>
          /\ tokens' = tokens
          /\ jwt' = jwt
      ]_vars

\* C5 witness: a string that is no token was presented while the token
\* repository held sessions.
C5_Witness ==
    /\ last.op = "RefreshToken"
    /\ last.token = Garbage
    /\ last.err = ErrInvalidRefreshToken
    /\ tokens # {}

\* C6: Register.  With a username the user repository already holds, Register
\* returns UsernameAlreadyTaken and changes neither repository.  With a fresh
\* username (and no collaborator failure) it returns a token pair, adds exactly
\* one user, with that username, role "student" and the hash of the password,
\* leaves the other users as they were, and stores the returned refresh token
\* under the new user's ID.
C6_Register ==
    [][ Called("Register") =>
          /\ (HasUsername(users, last'.username)
                /\ last'.fault \notin {"hash", "create"}) =>
                /\ last'.err = ErrUsernameAlreadyTaken
                /\ last'.pair = EmptyTokenPair
                /\ users' = users
                /\ tokens' = tokens
          /\ (~HasUsername(users, last'.username) /\ last'.fault = "none") =>
                /\ last'.err = Nil
                /\ last'.pair.AccessToken.kind = "access"
                /\ last'.pair.RefreshToken.kind = "refresh"
                /\ Len(users') = Len(users) + 1
                /\ SubSeq(users', 1, Len(users)) = users
                /\ LET new == users'[Len(users')] IN
                   /\ new.Username = last'.username
                   /\ new.Role = "student"
                   /\ VerifyPassword(last'.password, new.PasswordHash, passwordSalt)
                   /\ new.ID = last'.userID
                   /\ \A i \in 1..Len(users) : users[i].ID # new.ID
                   /\ ParseRefreshToken(last'.pair.RefreshToken, "none").userID = new.ID
                   /\ Stored(tokens', new.ID) = last'.pair.RefreshToken
                   /\ {r \in tokens' : r.UserID # new.ID} = tokens
      ]_vars

\* C6 witness: a second user has registered and holds the returned refresh
\* token.
C6_Witness ==
    /\ last.op = "Register" /\ last.err = Nil
    /\ Len(users) = 2
    /\ last.userID = 2
    /\ Stored(tokens, 2) = last.pair.RefreshToken

\* C7: the session of a user is never revoked.  A user gets a stored refresh
\* token only by a successful Login or Register for that user; a stored token
\* T1 is replaced by another only by a successful Login for that user or a
\* successful RefreshToken presenting T1; no step removes a stored token; and
\* in every state each stored token is redeemable: RefreshToken presenting it
\* succeeds (no collaborator failing).
C7_NoRevocation ==
    [][ /\ \A u \in UserIDs :
              /\ (~HasSession(tokens, u) /\ HasSession(tokens', u)) =>
                    /\ last'.op \in {"Login", "Register"}
                    /\ last'.err = Nil /\ last'.userID = u
              /\ (HasSession(tokens, u) /\ HasSession(tokens', u)
                    /\ Stored(tokens', u) # Stored(tokens, u)) =>
                    /\ last'.err = Nil /\ last'.userID = u
                    /\ \/ last'.op = "Login"
                       \/ last'.op = "RefreshToken" /\ last'.token = Stored(tokens, u)
              /\ HasSession(tokens, u) => HasSession(tokens', u)
        /\ \A r \in tokens' :
              RefreshToken(users', tokens', jwt', r.RefreshToken, "none").err = Nil
      ]_vars

\* C7 witness: the stored token of one user has stayed in place through a
\* successful Login or RefreshToken of another user.
C7_Witness ==
    /\ last.op \in {"Login", "RefreshToken"} /\ last.err = Nil
    /\ \E r \in tokens :
          /\ r.UserID # last.userID
          /\ r.RefreshToken = current[r.UserID].RefreshToken
          /\ r.RefreshToken.n < last.pair.RefreshToken.n
    /\ \E t \in superseded : t.uid = last.userID

\* C9: GetUserFromAccessToken.  When ParseAccessToken rejects the token it
\* returns InvalidAccessToken and does not read the user repository; when the
\* token parses to a user ID the user repository does not hold it returns
\* UserNotFound; when the user repository returns the user of the parsed ID it
\* returns exactly that record.
C9_GetUserFromAccessToken ==
    [][ Called("GetUserFromAccessToken") =>
          LET p == ParseAccessToken(last'.token, last'.fault) IN
          /\ p.err # Nil =>
                /\ last'.err = ErrInvalidAccessToken
                /\ last'.user = EmptyUser
                /\ last'.calls = <<"ParseAccessToken">>
          /\ (p.err = Nil /\ last'.fault # "lookup"
                /\ ~\E i \in 1..Len(users) : users[i].ID = p.userID) =>
                /\ last'.err = ErrUserNotFound
                /\ last'.user = EmptyUser
          /\ (p.err = Nil /\ last'.fault # "lookup"
                /\ \E i \in 1..Len(users) : users[i].ID = p.userID) =>
                /\ last'.err = Nil
                /\ \E i \in 1..Len(users) :
                      users[i].ID = p.userID /\ last'.user = users[i]
      ]_vars

\* C9 witness: an access token keyed by a user ID the user repository does not
\* hold was presented while the repository held another user.
C9_Witness ==
    /\ last.op = "GetUserFromAccessToken"
    /\ last.token.kind = "access" /\ last.fault = "none"
    /\ Len(users) = 1 /\ last.token.uid = 2
    /\ last.err = ErrUserNotFound

----------------------------------------------------------------------------
(* Properties of the class service *)

WriteCalls == {"UpdateOrSwitch", "ClassRepository.Delete"}

\* the owner of the schedule of the class with this ID: 0 when the class or its
\* schedule is not there
OwnerOf(cs, ss, id) ==
    IF \E c \in cs : c.ID = id
    THEN LET c == CHOOSE c \in cs : c.ID = id IN
         IF \E x \in ss : x.ID = c.ScheduleID
         THEN (CHOOSE x \in ss : x.ID = c.ScheduleID).UserID
         ELSE 0
    ELSE 0

\* C10: ClassService.Update and ClassService.Delete write only on behalf of the
\* owner.  When the class and its schedule are found and the schedule's UserID
\* is not the acting user, the call returns DontHavePermission; a failed class
\* or schedule lookup returns the lookup's error; in both cases no write of the
\* class repository is invoked and the classes are unchanged.  A write is
\* invoked only as the last call, after both lookups, by the schedule's owner.
C10_OwnerOnlyWrites ==
    [][ (clast = NoClassCall /\ clast'.op \in {"Update", "Delete"}) =>
          LET o  == clast'
              c  == ClassRepositoryGetByID(classes, o.id, o.fault)
              x  == ScheduleRepositoryGetByID(schedules, c.class.ScheduleID, o.fault) IN
          /\ (c.err = Nil /\ x.err = Nil /\ x.schedule.UserID # o.userID) =>
                /\ o.err = ErrDontHavePermission
                /\ ~Touches(o.calls, WriteCalls)
                /\ classes' = classes
          /\ c.err # Nil =>
                o.err = c.err /\ ~Touches(o.calls, WriteCalls) /\ classes' = classes
          /\ (c.err = Nil /\ x.err # Nil) =>
                o.err = x.err /\ ~Touches(o.calls, WriteCalls) /\ classes' = classes
          /\ Touches(o.calls, WriteCalls) =>
                /\ OwnerOf(classes, schedules, o.id) = o.userID
                /\ c.err = Nil /\ x.err = Nil
                /\ Len(o.calls) = 3
                /\ o.calls[1] = "ClassRepository.GetByID"
                /\ o.calls[2] = "ScheduleRepository.GetByID"
                /\ o.calls[3] = IF o.op = "Update"
                                THEN "UpdateOrSwitch"
                                ELSE "ClassRepository.Delete"
          /\ classes' # classes => OwnerOf(classes, schedules, o.id) = o.userID
      ]_vars

\* C10 witness: a user who does not own the schedule of an existing class has
\* been refused an Update.
C10_Witness ==
    /\ clast.op = "Update"
    /\ clast.err = ErrDontHavePermission
    /\ OwnerOf(classes, schedules, clast.id) \notin {0, clast.userID}
    /\ clast.calls = <<"ClassRepository.GetByID", "ScheduleRepository.GetByID">>

----------------------------------------------------------------------------
(* Properties of the concurrent system *)

AllDone == \A p \in Procs : pc[p] = "done"

\* C8: last write wins.  When the two calls, both acting for one user, have
\* completed and a CreateOrUpdate has succeeded, the token repository holds
\* exactly one refresh token for the user: the one returned by the call whose
\* CreateOrUpdate ran last.  In every state the token stored for a user is the
\* one stored before the calls or one that a call for the user has generated.
C8_LastWriteWins ==
    \A u \in UserIDs :
        LET recs == {r \in tokens : r.UserID = u} IN
        /\ (AllDone /\ (\A p \in Procs : loc[p].userID = u) /\ lastWrite[u] # 0) =>
              /\ Cardinality(recs) = 1
              /\ loc[lastWrite[u]].err = Nil
              /\ \A r \in recs : r.RefreshToken = loc[lastWrite[u]].pair.RefreshToken
        /\ \A r \in recs :
              \/ r \in Registered.tokens
              \/ \E p \in Procs :
                    /\ pc[p] \in {"store", "done"}
                    /\ loc[p].userID = u
                    /\ loc[p].generated # EmptyTokenPair
                    /\ r.RefreshToken = loc[p].generated.RefreshToken

\* C8 witness: two calls for one user have both returned a pair, and the call
\* that generated its pair first stored it last.
C8_Witness ==
    /\ AllDone
    /\ \A p \in Procs : loc[p].userID = 1 /\ loc[p].err = Nil
    /\ loc[1].op = "Login" /\ loc[2].op = "RefreshToken"
    /\ loc[1].pair.RefreshToken.n < loc[2].pair.RefreshToken.n
    /\ lastWrite[1] = 1
    /\ Stored(tokens, 1) = loc[1].pair.RefreshToken

----------------------------------------------------------------------------
(* Error handling of the sequential system under collaborator failures *)

\* C11: when Login's username lookup fails with an error other than NotFound,
\* Login returns a wrapped service error (kind ServiceError), as it does for a
\* failed token generation and a failed CreateOrUpdate, and not the
\* repository's error itself.
C11_LoginWrapsLookupError ==
    [][ (Called("Login") /\ last'.fault = "lookup") =>
          /\ last'.err.kind = "ServiceError"
          /\ last'.err # GetByUsername(users, last'.username, "lookup").err
      ]_vars

\* C11, the other failures of Login: a failed generation and a failed
\* CreateOrUpdate are returned as wrapped service errors.
C11_LoginWrapsOtherErrors ==
    [][ (Called("Login") /\ last'.fault \in {"genAccess", "genRefresh", "store"}
           /\ Touches(last'.calls,
                      {"GenerateAccessToken", "GenerateRefreshToken", "CreateOrUpdate"})) =>
          last'.err.kind = "ServiceError"
      ]_vars

\* C12: RefreshToken with a token that parses to a user ID without a record in
\* the token repository returns UserNotFound, generates no token and creates
\* no record; a lookup that fails otherwise is returned as a wrapped service
\* error.
C12_RefreshTokenWithoutSession ==
    [][ (Called("RefreshToken")
           /\ ParseRefreshToken(last'.token, last'.fault).err = Nil) =>
          /\ (last'.fault # "lookup" /\ ~HasSession(tokens, last'.token.uid)) =>
                /\ last'.err = ErrUserNotFound
                /\ last'.err # ErrInvalidRefreshToken
                /\ last'.pair = EmptyTokenPair
                /\ ~Generates(last'.calls)
                /\ ~Touches(last'.calls, {"CreateOrUpdate"})
                /\ jwt' = jwt
                /\ tokens' = tokens
          /\ last'.fault = "lookup" =>
                /\ last'.err.kind = "ServiceError"
                /\ last'.err.cause = GetByUserID(tokens, last'.token.uid, "lookup").err.msg
                /\ last'.pair = EmptyTokenPair
                /\ ~Generates(last'.calls)
                /\ tokens' = tokens
      ]_vars

\* C12 witness: a refresh token keyed by a registered user who has no stored
\* token (the registration failed to store one) was presented.
C12_Witness ==
    /\ last.op = "RefreshToken" /\ last.fault = "none"
    /\ last.token.kind = "refresh"
    /\ last.token.uid \in 1..Len(users)
    /\ ~HasSession(tokens, last.token.uid)
    /\ tokens # {}
    /\ last.err = ErrUserNotFound

\* how many times a collaborator call occurs in a call trace
Count(calls, name) == Cardinality({k \in 1..Len(calls) : calls[k] = name})

\* C13: a failed token generation is fatal and not retried.  When
\* GenerateAccessToken or GenerateRefreshToken fails during Login, Register or
\* RefreshToken, the call returns a wrapped service error with the empty pair;
\* CreateOrUpdate is not called and the token repository is unchanged, so a
\* refresh token stored for the user before is still accepted; each generator
\* is invoked at most once, and GenerateRefreshToken not at all when
\* GenerateAccessToken failed.
C13_GenerationFailureIsFatal ==
    [][ (last = NoCall /\ last'.op \in {"Login", "Register", "RefreshToken"}
           /\ last'.fault \in {"genAccess", "genRefresh"}
           /\ Generates(last'.calls)) =>
          /\ last'.err.kind = "ServiceError"
          /\ last'.pair = EmptyTokenPair
          /\ ~Touches(last'.calls, {"CreateOrUpdate"})
          /\ tokens' = tokens
          /\ Count(last'.calls, "GenerateAccessToken") = 1
          /\ Count(last'.calls, "GenerateRefreshToken")
                = IF last'.fault = "genAccess" THEN 0 ELSE 1
          /\ HasSession(tokens, last'.userID) =>
                RefreshToken(users', tokens', jwt', Stored(tokens, last'.userID),
                             "none").err = Nil
      ]_vars

\* C13 witness: GenerateRefreshToken has failed in a RefreshToken call after
\* GenerateAccessToken succeeded, and the presented token is still the stored
\* one.
C13_Witness ==
    /\ last.op = "RefreshToken" /\ last.fault = "genRefresh"
    /\ last.err.kind = "ServiceError"
    /\ last.calls = <<"ParseRefreshToken", "GetByUserID",
                      "GenerateAccessToken", "GenerateRefreshToken">>
    /\ Stored(tokens, last.userID) = last.token

----------------------------------------------------------------------------
(* Concurrent redemption of one refresh token *)

\* process p's call was a RefreshToken that has returned a token pair
Redeemed(p) ==
    /\ pc[p] = "done"
    /\ loc[p].op = "RefreshToken"
    /\ loc[p].err = Nil
    /\ loc[p].pair # EmptyTokenPair

\* C14 as stated: a refresh token is single-use under concurrency; two
\* RefreshToken calls presenting the same token never both return a token
\* pair, in any interleaving of their GetByUserID and CreateOrUpdate steps.
C14_SingleUseUnderConcurrency ==
    \A p, q \in Procs :
        (p # q /\ Redeemed(p) /\ Redeemed(q)) => loc[p].token # loc[q].token

\* C14 amended: a refresh token is single-use only across calls that do not
\* overlap.  A RefreshToken call whose GetByUserID runs after another
\* RefreshToken call presenting the same token has returned a pair is
\* rejected (InvalidRefreshToken when no collaborator fails) and never reaches
\* CreateOrUpdate; two calls presenting the same token can both return a pair
\* only when each read the stored token before the other's CreateOrUpdate.
C14_SingleUseWhenNotOverlapping ==
    [][ \A p, q \in Procs :
          (/\ p # q
           /\ Redeemed(q)
           /\ pc[p] = "idle" /\ pc'[p] # "idle"
           /\ loc'[p].op = "RefreshToken"
           /\ loc'[p].token = loc[q].token) =>
             /\ pc'[p] = "done"
             /\ loc'[p].err # Nil
             /\ loc'[p].pair = EmptyTokenPair
             /\ loc'[p].fault = "none" => loc'[p].err = ErrInvalidRefreshToken
             /\ tokens' = tokens
      ]_vars

\* C14 witness: one call has redeemed the registration's refresh token, and
\* the other, presenting the same token afterwards with no collaborator
\* failing, has been rejected.
C14_Witness ==
    \E p, q \in Procs :
        /\ p # q
        /\ Redeemed(q)
        /\ loc[q].token = Registered.pair.RefreshToken
        /\ pc[p] = "done" /\ loc[p].op = "RefreshToken"
        /\ loc[p].token = loc[q].token
        /\ loc[p].fault = "none"
        /\ loc[p].err = ErrInvalidRefreshToken
        /\ Stored(tokens, loc[q].userID) = loc[q].pair.RefreshToken

----------------------------------------------------------------------------
(* Register under collaborator failures *)

\* C15 as stated: Register is all-or-nothing; whenever Register returns an
\* error, the user repository contains no user that it did not contain before
\* the call.
C15_RegisterAllOrNothing ==
    [][ (Called("Register") /\ last'.err # Nil) => users' = users ]_vars

\* C15 amended: Register is all-or-nothing only up to the creation of the
\* user.  When it returns UsernameAlreadyTaken, or the error of a failed
\* hashing or creation, the user repository is unchanged.  When token
\* generation or CreateOrUpdate fails after the user was created, Register
\* returns a wrapped service error and the created user stays in the user
\* repository, without a stored refresh token; the token repository is
\* unchanged.  Every user created by a Register that returned a pair has the
\* pair's refresh token stored.
C15_RegisterKeepsCreatedUser ==
    [][ Called("Register") =>
          LET created == Touches(last'.calls, {"GenerateAccessToken"}) IN
          /\ (last'.err # Nil /\ ~created) =>
                /\ users' = users
                /\ tokens' = tokens
                /\ \/ last'.err = ErrUsernameAlreadyTaken
                   \/ last'.fault \in {"hash", "create"}
          /\ (last'.err # Nil /\ created) =>
                /\ last'.fault \in {"genAccess", "genRefresh", "store"}
                /\ last'.err.kind = "ServiceError"
                /\ last'.pair = EmptyTokenPair
                /\ Len(users') = Len(users) + 1
                /\ SubSeq(users', 1, Len(users)) = users
                /\ users'[Len(users')].Username = last'.username
                /\ users'[Len(users')].ID = last'.userID
                /\ ~HasSession(tokens', last'.userID)
                /\ tokens' = tokens
          /\ last'.err = Nil =>
                /\ created
                /\ Len(users') = Len(users) + 1
                /\ Stored(tokens', last'.userID) = last'.pair.RefreshToken
      ]_vars

\* C15 witness: a Register whose CreateOrUpdate failed has returned an error,
\* and the user it created is in the user repository without a stored token.
C15_Witness ==
    /\ last.op = "Register" /\ last.fault = "store"
    /\ last.err.kind = "ServiceError"
    /\ last.userID \in 1..Len(users)
    /\ users[last.userID].Username = last.username
    /\ ~HasSession(tokens, last.userID)

----------------------------------------------------------------------------
(* Ownership of stored tokens, frame conditions, access-token resolution *)

\* every stored refresh token was generated for the user ID it is stored
\* under, that user is in the user repository, and no two records hold the
\* same token
Bound(ts, us) ==
    /\ \A r \in ts :
          /\ ParseRefreshToken(r.RefreshToken, "none").err = Nil
          /\ ParseRefreshToken(r.RefreshToken, "none").userID = r.UserID
          /\ \E i \in 1..Len(us) : us[i].ID = r.UserID
    /\ \A r1, r2 \in ts : r1.RefreshToken = r2.RefreshToken => r1.UserID = r2.UserID

\* the records the token repository holds for user ID v
RecordsOf(ts, v) == {r \in ts : r.UserID = v}

\* C16: stored tokens are bound to their owner.  In every reachable state the
\* refresh token stored under user ID u parses to u and u is a user of the
\* user repository, so no two users share a stored refresh token; a
\* RefreshToken call that accepts a token issued for u acts for u, returns
\* tokens of u, and leaves the record of every other user as it was.
C16_StoredTokensBoundToOwner ==
    [][ /\ Bound(tokens, users)
        /\ Bound(tokens', users')
        /\ (Called("RefreshToken") /\ last'.err = Nil) =>
              LET u == ParseRefreshToken(last'.token, "none").userID IN
              /\ last'.userID = u
              /\ ParseRefreshToken(last'.pair.RefreshToken, "none").userID = u
              /\ ParseAccessToken(last'.pair.AccessToken, "none").userID = u
              /\ \A v \in UserIDs \ {u} : RecordsOf(tokens', v) = RecordsOf(tokens, v)
      ]_vars

\* C16 witness: two users hold stored refresh tokens, and a RefreshToken for
\* one of them has been accepted.
C16_Witness ==
    /\ last.op = "RefreshToken" /\ last.err = Nil
    /\ last.userID = 2
    /\ HasSession(tokens, 1) /\ HasSession(tokens, 2)
    /\ Stored(tokens, 2) = last.pair.RefreshToken
    /\ Stored(tokens, 1).uid = 1

\* C17: frame conditions.  Login, RefreshToken and GetUserFromAccessToken
\* leave the user repository unchanged; Register at most appends one user and
\* changes no existing one; GetUserFromAccessToken changes nothing; and a call
\* acting for user u leaves the stored refresh token of every other user
\* unchanged.
C17_Frame ==
    [][ (last = NoCall /\ last'.op # "none") =>
          /\ last'.op \in {"Login", "RefreshToken", "GetUserFromAccessToken"} =>
                users' = users
          /\ last'.op = "Register" =>
                /\ Len(users') \in {Len(users), Len(users) + 1}
                /\ SubSeq(users', 1, Len(users)) = users
          /\ last'.op = "GetUserFromAccessToken" =>
                /\ tokens' = tokens
                /\ jwt' = jwt
                /\ ~Touches(last'.calls, {"Create", "CreateOrUpdate",
                                          "GenerateAccessToken", "GenerateRefreshToken"})
          /\ \A v \in UserIDs :
                v # last'.userID => RecordsOf(tokens', v) = RecordsOf(tokens, v)
      ]_vars

\* C17 witness: a RefreshToken for one user has replaced that user's stored
\* token while the other user's stored token is still the one last returned
\* to them.
C17_Witness ==
    /\ last.op = "RefreshToken" /\ last.err = Nil
    /\ last.userID = 1
    /\ Len(users) = 2
    /\ HasSession(tokens, 2)
    /\ Stored(tokens, 2) = current[2].RefreshToken
    /\ Stored(tokens, 1) = last.pair.RefreshToken

\* token repositories that differ from ts: the empty one, ts without one
\* record, ts with every token replaced
OtherTokens(ts) ==
    {{}} \cup {ts \ {r} : r \in ts}
         \cup {{[r EXCEPT !.RefreshToken = Garbage] : r \in ts}}

\* C18: access-token resolution does not depend on the token repository.
\* GetUserFromAccessToken returns the same error and user with any other
\* token repository beside the same user repository; and after a Login or
\* RefreshToken has replaced a user's stored token, the access token returned
\* to the user before still resolves to that user.
C18_ResolutionIgnoresSessions ==
    [][ /\ Called("GetUserFromAccessToken") =>
              \A ts \in OtherTokens(tokens) :
                  LET a == GetUserFromAccessToken(users, ts, jwt, last'.token,
                                                  last'.fault) IN
                  /\ a.err = last'.err
                  /\ a.user = last'.user
        /\ (last = NoCall /\ last'.op \in {"Login", "RefreshToken"}
              /\ last'.err = Nil
              /\ current[last'.userID] # EmptyTokenPair) =>
              LET old == current[last'.userID].AccessToken
                  g   == GetUserFromAccessToken(users', tokens', jwt', old, "none") IN
              /\ old # last'.pair.AccessToken
              /\ Stored(tokens', last'.userID) # current[last'.userID].RefreshToken
              /\ g.err = Nil
              /\ g.user.ID = last'.userID
      ]_vars

\* C18 witness: an access token returned before the user's stored token was
\* replaced has been resolved to the user.
C18_Witness ==
    /\ last.op = "GetUserFromAccessToken" /\ last.err = Nil
    /\ last.token.kind = "access"
    /\ current[last.userID] # EmptyTokenPair
    /\ last.token.n < current[last.userID].AccessToken.n
    /\ last.user.ID = last.userID
    /\ HasSession(tokens, last.userID)

====
